---- MODULE Spec2Model ----
(***************************************************************************)
(* The in-memory hash-linked ledger of blockchain/blockchain.py: Block,    *)
(* Blockchain (singleton), add_block with its proof-of-work loop, the      *)
(* unlocked read accessors and lookups, is_chain_valid and reset, called   *)
(* by several threads, and the writes callers can make to what they are    *)
(* handed.                                                                 *)
(***************************************************************************)
EXTENDS Integers, Sequences, FiniteSets, TLC

VARIABLES
    now,          \* the value time.time() returns
    instance,     \* Blockchain._instance: "None" or "obj"
    objects,      \* how many times super().__new__(cls) has run
    initialized,  \* the instance's _initialized attribute: "unset", "False", "True"
    chain,        \* the instance's chain attribute: "unset" or a sequence of Blocks
    chainLock,    \* the lock object in the instance's _chain_lock (0: unset)
    holder,       \* holder[l]: the thread holding lock object l, 0 when free
    clsHolder,    \* the thread holding Blockchain._lock, 0 when free
    pc,           \* pc[t]: where thread t is
    loc,          \* loc[t]: the locals of the call thread t is in
    last,         \* the call the last step completed and its result; NoRet after any other step
    returned,     \* the Blocks add_block has returned since the last reset
    parents,      \* the tails (index, hash) add_block calls read since the last reset
    everReset,    \* whether reset() has ever been called
    calls,        \* how many add_block calls were made (kept while reset() was never called)
    peak,         \* the most add_block calls in progress at once (kept likewise)
    initRuns,     \* how many times __init__ ran its body (past the _initialized test)
    tampered,     \* the (position, field) an external writer changed, or <<>>
    dirty,        \* dirty[t]: the chain changed while t's running is_chain_valid was at work
    certs,        \* the rows of the Certificate table, in the order they were inserted
    logs          \* the rows of the VerificationLog table, in the order they were inserted

vars == <<now, instance, objects, initialized, chain, chainLock, holder, clsHolder,
          pc, loc, last, returned, parents, everReset, calls, peak, initRuns, tampered, dirty,
          certs, logs>>

----------------------------------------------------------------------------
(* Bounds of the model *)

NumThreads == 2
MaxChain == 3
MaxTime == 1
MaxLogs == 1

Threads == 1..NumThreads
Times == 0..MaxTime

----------------------------------------------------------------------------
(* Block *)

\* The digits a hex digest's first character ranges over.
HexBase == 16

\* The keys the payloads of the model use, in the order json.dumps(sort_keys=True) writes them.
SortedKeys ==
    <<"certificate_hash", "certificate_type", "institution", "student_id", "student_name",
      "transaction_id">>

\* The dictionary `data` as sort_keys=True serialises it: its (key, value) pairs in key order.
JsonDumpsData(data) ==
    LET present == SelectSeq(SortedKeys, LAMBDA k : k \in DOMAIN data)
    IN  [i \in 1..Len(present) |-> <<present[i], data[present[i]]>>]

StrCode(s) ==
    CASE s = "abc123" -> 2
      [] s = "def456" -> 9
      [] s = "Alice" -> 4
      [] s = "S1" -> 3
      [] s = "Genesis" -> 1
      [] OTHER -> 0

RECURSIVE PairsCode(_)
PairsCode(pairs) ==
    IF pairs = <<>> THEN 0
    ELSE StrCode(pairs[1][2]) + 1 + PairsCode(Tail(pairs))

\* hashlib.sha256(...).hexdigest(): a collision-free digest of the string, with the
\* value of its first hex character.
Sha256Hex(s) ==
    [first |-> (4 * (PairsCode(s[1]) + 3 * s[2] + s[3] + s[4].first + s[5])) % HexBase,
     pre |-> s]

\* '0' * 64
ZeroHash == [first |-> 0, pre |-> <<>>]

\* Block.calculate_hash: json.dumps of the five fields with sorted keys
\* (data, index, nonce, previous_hash, timestamp), then SHA-256.
CalculateHash(b) ==
    Sha256Hex(<<JsonDumpsData(b.data), b.index, b.nonce, b.previous_hash, b.timestamp>>)

\* Block.__init__ with the timestamp taken again after the hash was computed.
NewBlockRefreshed(index, data, previous_hash, time) ==
    LET b == [index |-> index, timestamp |-> time, data |-> data,
              previous_hash |-> previous_hash, nonce |-> 0]
    IN  [index |-> index, timestamp |-> time + 1, data |-> data,
         previous_hash |-> previous_hash, nonce |-> 0, current_hash |-> CalculateHash(b)]

\* Block.__init__ with self.nonce = 1.
NewBlockFromOne(index, data, previous_hash, time) ==
    LET b == [index |-> index, timestamp |-> time, data |-> data,
              previous_hash |-> previous_hash, nonce |-> 1]
    IN  [index |-> index, timestamp |-> time, data |-> data,
         previous_hash |-> previous_hash, nonce |-> 1, current_hash |-> CalculateHash(b)]

\* Block.__init__
NewBlock(index, data, previous_hash, time) ==
    LET b == [index |-> index, timestamp |-> time, data |-> data,
              previous_hash |-> previous_hash, nonce |-> 0]
    IN  [index |-> index, timestamp |-> time, data |-> data,
         previous_hash |-> previous_hash, nonce |-> 0, current_hash |-> CalculateHash(b)]

\* add_block without its proof-of-work loop.
StartsWithAnything(h) == TRUE

\* new_block.current_hash.startswith('0')
StartsWithZero(h) == h.first = 0

\* genesis_data of _create_genesis_block
GenesisData ==
    [certificate_hash |-> "0000000000000000000000000000000000000000000000000000000000000000",
     student_name |-> "Genesis",
     student_id |-> "0",
     certificate_type |-> "genesis",
     institution |-> "BlockVerify System"]

\* _create_genesis_block building Block(1, genesis_data, '0' * 64).
GenesisBlockAtOne(time) == NewBlock(1, GenesisData, ZeroHash, time)

\* _create_genesis_block: the Block it appends
GenesisBlock(time) == NewBlock(0, GenesisData, ZeroHash, time)

\* The payloads callers pass to add_block.
Payloads ==
    { [certificate_hash |-> "abc123", student_id |-> "S1"],
      [certificate_hash |-> "def456"],
      [student_name |-> "Alice"] }

\* A payload value that is a bytes object b'abc123' (written here as a string of its own).
BytesValue == "b'abc123'"

\* json.dumps accepts the dictionary: none of its values is a bytes object. Otherwise
\* it raises TypeError.
JsonSerializable(data) == \A k \in DOMAIN data : data[k] # BytesValue

\* Payloads json.dumps does not accept.
BadPayloads ==
    { [certificate_hash |-> BytesValue],
      [certificate_hash |-> "abc123", student_name |-> BytesValue] }

----------------------------------------------------------------------------
(* State after construction: Blockchain() has returned once (views.py builds the
   singleton at import), every thread is between calls. *)

\* Python's None (written here as a string of its own).
None == "None"

NoLoc == [op |-> "none"]
NoRet == [op |-> "none"]

Init ==
    /\ now \in Times
    /\ instance = "obj"
    /\ objects = 1
    /\ initialized = "True"
    /\ chain = <<GenesisBlock(now)>>
    /\ chainLock = 1
    /\ holder = [l \in Threads |-> 0]
    /\ clsHolder = 0
    /\ pc = [t \in Threads |-> "idle"]
    /\ loc = [t \in Threads |-> NoLoc]
    /\ last = NoRet
    /\ returned = <<>>
    /\ parents = <<>>
    /\ everReset = FALSE
    /\ calls = 0
    /\ peak = 0
    /\ initRuns = 1
    /\ tampered = <<>>
    /\ dirty = [t \in Threads |-> FALSE]
    /\ certs = <<>>
    /\ logs = <<>>

\* time.time() as a Block's constructor reads it: the clock has not gone back since
\* the last reading.
ClockReadings == now..MaxTime

\* The chain has changed under every is_chain_valid that is running.
MarkDirty == [t \in Threads |-> pc[t] \in {"valid_cur", "valid_prev"}]

InAddBlock(t) == pc[t] \in {"add_wait", "add_mine"}

----------------------------------------------------------------------------
(* add_block *)

\* add_block and reset without the `with self._chain_lock`.
LockIgnored(l) == TRUE

\* previous_block = self.chain[0]
PreviousBlockFirst(c) == c[1]

\* index=previous_block.index
NextIndexOfTail(c) == c[Len(c)].index

\* `with self._chain_lock`: the caller goes on once lock object l is free
LockFree(l) == holder[l] = 0

\* previous_block = self.chain[-1]
PreviousBlock(c) == c[Len(c)]

\* index=len(self.chain)
NextIndex(c) == Len(c)

\* add_block putting new_block in the place of the tail.
ChainAppendOverTail(c, b) == [c EXCEPT ![Len(c)] = b]

\* self.chain.append(new_block)
ChainAppend(c, b) == Append(c, b)

\* An exception leaving the with block, were the lock taken by a bare acquire().
KeptOnRaise(h, l, t) == [h EXCEPT ![l] = t]

\* An exception leaves `with self._chain_lock`: the lock is released.
ReleasedOnRaise(h, l, t) == [h EXCEPT ![l] = 0]

\* A thread calls add_block(data): `with self._chain_lock` reads the lock object.
\* The two tests on MaxChain keep the chain and the count of calls within the bound.
AddBlockCall(t, data) ==
    /\ pc[t] = "idle"
    /\ Len(chain) + Cardinality({u \in Threads : InAddBlock(u)}) < MaxChain
    /\ pc' = [pc EXCEPT ![t] = "add_wait"]
    /\ loc' = [loc EXCEPT ![t] = [op |-> "add_block", data |-> data, lock |-> chainLock]]
    /\ calls < MaxChain
    /\ calls' = IF everReset THEN calls ELSE calls + 1
    /\ peak' = LET n == Cardinality({u \in Threads : InAddBlock(u)}) + 1
               IN  IF ~everReset /\ n > peak THEN n ELSE peak
    /\ last' = NoRet
    /\ UNCHANGED <<now, instance, objects, initialized, chain, chainLock, holder, clsHolder,
                   returned, parents, everReset, initRuns, tampered, dirty, certs, logs>>

\* The lock is acquired; previous_block = self.chain[-1]; new_block = Block(len(self.chain), ...)
AddBlockEnter(t) ==
    /\ pc[t] = "add_wait"
    /\ LockFree(loc[t].lock)
    /\ IF chain = <<>>
       THEN \* self.chain[-1] raises IndexError; the with statement releases the lock
            /\ pc' = [pc EXCEPT ![t] = "idle"]
            /\ loc' = [loc EXCEPT ![t] = NoLoc]
            /\ last' = [op |-> "add_block", raised |-> "IndexError"]
            /\ UNCHANGED <<now, holder>>
       ELSE IF ~JsonSerializable(loc[t].data)
       THEN \* Block.__init__: calculate_hash raises TypeError in json.dumps; the Block
            \* is dropped and the with statement releases the lock
            /\ pc' = [pc EXCEPT ![t] = "idle"]
            /\ loc' = [loc EXCEPT ![t] = NoLoc]
            /\ last' = [op |-> "add_block", raised |-> "TypeError"]
            /\ holder' = ReleasedOnRaise(holder, loc[t].lock, t)
            /\ UNCHANGED now
       ELSE \E time \in ClockReadings :
            LET previous_block == PreviousBlock(chain)
                new_block == NewBlock(NextIndex(chain), loc[t].data,
                                      previous_block.current_hash, time)
            IN  /\ now' = time
                /\ holder' = [holder EXCEPT ![loc[t].lock] = t]
                /\ pc' = [pc EXCEPT ![t] = "add_mine"]
                /\ loc' = [loc EXCEPT ![t] =
                             [op |-> "add_block", data |-> loc[t].data, lock |-> loc[t].lock,
                              parent |-> <<previous_block.index, previous_block.current_hash>>,
                              new_block |-> new_block]]
                /\ last' = NoRet
    /\ UNCHANGED <<instance, objects, initialized, chain, chainLock, clsHolder,
                   returned, parents, everReset, calls, peak, initRuns, tampered, dirty, certs,
                   logs>>

\* A turn of the loop that takes the time again: timestamp = time.time() (here, the
\* next reading), nonce += 1, current_hash = calculate_hash().
MineStepRestamped(b) ==
    LET c == [b EXCEPT !.nonce = b.nonce + 1, !.timestamp = b.timestamp + 1]
    IN  [c EXCEPT !.current_hash = CalculateHash(c)]

\* One turn of the proof-of-work loop: nonce += 1; current_hash = calculate_hash()
MineStep(b) ==
    LET c == [b EXCEPT !.nonce = b.nonce + 1]
    IN  [c EXCEPT !.current_hash = CalculateHash(c)]

AddBlockMine(t) ==
    /\ pc[t] = "add_mine"
    /\ ~StartsWithZero(loc[t].new_block.current_hash)
    /\ loc' = [loc EXCEPT ![t].new_block = MineStep(loc[t].new_block)]
    /\ last' = NoRet
    /\ UNCHANGED <<now, instance, objects, initialized, chain, chainLock, holder, clsHolder,
                   pc, returned, parents, everReset, calls, peak, initRuns, tampered,
                   dirty, certs, logs>>

\* The loop has ended: self.chain.append(new_block); return new_block (the lock is released)
AddBlockAppend(t) ==
    /\ pc[t] = "add_mine"
    /\ StartsWithZero(loc[t].new_block.current_hash)
    /\ chain' = ChainAppend(chain, loc[t].new_block)
    /\ holder' = [holder EXCEPT ![loc[t].lock] = 0]
    /\ pc' = [pc EXCEPT ![t] = "idle"]
    /\ loc' = [loc EXCEPT ![t] = NoLoc]
    /\ last' = [op |-> "add_block", block |-> loc[t].new_block]
    /\ returned' = Append(returned, loc[t].new_block)
    /\ parents' = Append(parents, loc[t].parent)
    /\ dirty' = MarkDirty
    /\ UNCHANGED <<now, instance, objects, initialized, chainLock, clsHolder,
                   everReset, calls, peak, initRuns, tampered, certs, logs>>

----------------------------------------------------------------------------
(* reset *)

ResetCall(t) ==
    /\ pc[t] = "idle"
    /\ pc' = [pc EXCEPT ![t] = "reset_wait"]
    /\ loc' = [loc EXCEPT ![t] = [op |-> "reset", lock |-> chainLock]]
    /\ last' = NoRet
    /\ UNCHANGED <<now, instance, objects, initialized, chain, chainLock, holder, clsHolder,
                   returned, parents, everReset, calls, peak, initRuns, tampered, dirty, certs,
                   logs>>

\* The locals of the calls in progress once self.chain is bound to another list: a
\* find_by_hash that is iterating keeps the list it started on, with the Blocks it had.
Detached(l) ==
    [u \in Threads |->
        IF l[u].op = "find_by_hash" /\ l[u].live
        THEN [l[u] EXCEPT !.live = FALSE, !.list = chain]
        ELSE l[u]]

\* The lock is acquired; self.chain = []
ResetClear(t) ==
    /\ pc[t] = "reset_wait"
    /\ LockFree(loc[t].lock)
    /\ holder' = [holder EXCEPT ![loc[t].lock] = t]
    /\ chain' = <<>>
    /\ pc' = [pc EXCEPT ![t] = "reset_genesis"]
    /\ returned' = <<>>
    /\ parents' = <<>>
    /\ everReset' = TRUE
    /\ calls' = 0
    /\ peak' = 0
    /\ tampered' = <<>>
    /\ dirty' = MarkDirty
    /\ last' = NoRet
    /\ loc' = Detached(loc)
    /\ UNCHANGED <<now, instance, objects, initialized, chainLock, clsHolder, initRuns, certs,
                   logs>>

\* self._create_genesis_block(); the lock is released
ResetGenesis(t) ==
    /\ pc[t] = "reset_genesis"
    /\ \E time \in ClockReadings :
          /\ now' = time
          /\ chain' = Append(chain, GenesisBlock(time))
    /\ holder' = [holder EXCEPT ![loc[t].lock] = 0]
    /\ pc' = [pc EXCEPT ![t] = "idle"]
    /\ loc' = [loc EXCEPT ![t] = NoLoc]
    /\ last' = [op |-> "reset"]
    /\ dirty' = MarkDirty
    /\ UNCHANGED <<instance, objects, initialized, chainLock, clsHolder,
                   returned, parents, everReset, calls, peak, initRuns, tampered, certs, logs>>

----------------------------------------------------------------------------
(* The read accessors: none of them takes the lock *)

\* get_chain_length: len(self.chain)
GetChainLength(t) ==
    /\ pc[t] = "idle"
    /\ last' = [op |-> "get_chain_length", val |-> Len(chain)]
    /\ UNCHANGED <<now, instance, objects, initialized, chain, chainLock, holder, clsHolder,
                   pc, loc, returned, parents, everReset, calls, peak, initRuns, tampered, dirty,
                   certs, logs>>

\* get_latest_block: self.chain[-1]
GetLatestBlock(t) ==
    /\ pc[t] = "idle"
    /\ last' = IF chain = <<>>
               THEN [op |-> "get_latest_block", raised |-> "IndexError"]
               ELSE [op |-> "get_latest_block", block |-> chain[Len(chain)]]
    /\ UNCHANGED <<now, instance, objects, initialized, chain, chainLock, holder, clsHolder,
                   pc, loc, returned, parents, everReset, calls, peak, initRuns, tampered, dirty,
                   certs, logs>>

\* The indices callers pass to get_block.
Indices == (0 - 1)..MaxChain

\* get_block: `if 0 <= index < len(self.chain)`, and `return None` when it fails
GetBlockTest(t, index) ==
    /\ pc[t] = "idle"
    /\ IF 0 <= index /\ index < Len(chain)
       THEN /\ pc' = [pc EXCEPT ![t] = "get_index"]
            /\ loc' = [loc EXCEPT ![t] = [op |-> "get_block", index |-> index]]
            /\ last' = NoRet
       ELSE /\ last' = [op |-> "get_block", index |-> index, val |-> None]
            /\ UNCHANGED <<pc, loc>>
    /\ UNCHANGED <<now, instance, objects, initialized, chain, chainLock, holder, clsHolder,
                   returned, parents, everReset, calls, peak, initRuns, tampered, dirty, certs,
                   logs>>

\* get_block: `return self.chain[index]`, a second reading of self.chain
GetBlockIndex(t) ==
    /\ pc[t] = "get_index"
    /\ pc' = [pc EXCEPT ![t] = "idle"]
    /\ loc' = [loc EXCEPT ![t] = NoLoc]
    /\ last' = IF loc[t].index < Len(chain)
               THEN [op |-> "get_block", index |-> loc[t].index,
                     block |-> chain[loc[t].index + 1]]
               ELSE [op |-> "get_block", index |-> loc[t].index, raised |-> "IndexError"]
    /\ UNCHANGED <<now, instance, objects, initialized, chain, chainLock, holder, clsHolder,
                   returned, parents, everReset, calls, peak, initRuns, tampered, dirty, certs,
                   logs>>

\* The certificate hashes callers pass to find_by_hash: two that payloads carry, the one
\* of the genesis data, and one no payload carries.
Queries == {"abc123", "def456", GenesisData.certificate_hash, "zzz999"}

\* d.get(key)
DictGet(d, key) == IF key \in DOMAIN d THEN d[key] ELSE None

\* find_by_hash comparing the student_id.
MatchesStudent(block, certificate_hash) == DictGet(block.data, "student_id") = certificate_hash

\* block.data.get('certificate_hash') == certificate_hash
Matches(block, certificate_hash) == DictGet(block.data, "certificate_hash") = certificate_hash

\* find_by_hash: `for block in self.chain` takes an iterator on the list self.chain is
\* bound to now. `due` notes whether an add_block of this hash has returned by now.
FindStart(t, certificate_hash) ==
    /\ pc[t] = "idle"
    /\ pc' = [pc EXCEPT ![t] = "find_next"]
    /\ loc' = [loc EXCEPT ![t] =
                 [op |-> "find_by_hash", query |-> certificate_hash, i |-> 0,
                  live |-> TRUE, list |-> <<>>,
                  due |-> \E k \in 1..Len(returned) :
                             DictGet(returned[k].data, "certificate_hash") = certificate_hash]]
    /\ last' = NoRet
    /\ UNCHANGED <<now, instance, objects, initialized, chain, chainLock, holder, clsHolder,
                   returned, parents, everReset, calls, peak, initRuns, tampered, dirty, certs,
                   logs>>

\* One turn of the loop: the iterator's next Block and the test, or the end of the list
\* and `return None`
FindNext(t) ==
    /\ pc[t] = "find_next"
    /\ LET list == IF loc[t].live THEN chain ELSE loc[t].list
           done == [op |-> "find_by_hash", query |-> loc[t].query, live |-> loc[t].live,
                    list |-> loc[t].list, due |-> loc[t].due]
       IN  IF loc[t].i >= Len(list)
           THEN /\ pc' = [pc EXCEPT ![t] = "idle"]
                /\ loc' = [loc EXCEPT ![t] = NoLoc]
                /\ last' = done @@ [val |-> None]
           ELSE IF Matches(list[loc[t].i + 1], loc[t].query)
           THEN /\ pc' = [pc EXCEPT ![t] = "idle"]
                /\ loc' = [loc EXCEPT ![t] = NoLoc]
                /\ last' = done @@ [block |-> list[loc[t].i + 1]]
           ELSE /\ loc' = [loc EXCEPT ![t].i = loc[t].i + 1]
                /\ last' = NoRet
                /\ UNCHANGED pc
    /\ UNCHANGED <<now, instance, objects, initialized, chain, chainLock, holder, clsHolder,
                   returned, parents, everReset, calls, peak, initRuns, tampered, dirty, certs,
                   logs>>

\* is_chain_valid without its first test.
HashNotChecked(current) == TRUE

\* is_chain_valid, the two tests of one turn of its loop
HashMatches(current) == current.current_hash = CalculateHash(current)

LinkMatches(current, previous) == current.previous_hash = previous.current_hash

\* is_chain_valid: range(1, len(self.chain)) is evaluated once, on entry
ValidStart(t) ==
    /\ pc[t] = "idle"
    /\ IF Len(chain) > 1
       THEN /\ pc' = [pc EXCEPT ![t] = "valid_cur"]
            /\ loc' = [loc EXCEPT ![t] = [op |-> "is_chain_valid", n |-> Len(chain), i |-> 1]]
            /\ last' = NoRet
       ELSE /\ last' = [op |-> "is_chain_valid", val |-> TRUE, at |-> 1, clean |-> TRUE]
            /\ UNCHANGED <<pc, loc>>
    /\ UNCHANGED <<now, instance, objects, initialized, chain, chainLock, holder, clsHolder,
                   returned, parents, everReset, calls, peak, initRuns, tampered, dirty, certs,
                   logs>>

\* current = self.chain[i]
ValidCurrent(t) ==
    /\ pc[t] = "valid_cur"
    /\ IF loc[t].i < Len(chain)
       THEN /\ pc' = [pc EXCEPT ![t] = "valid_prev"]
            /\ loc' = [loc EXCEPT ![t] = [op |-> "is_chain_valid", n |-> loc[t].n,
                                          i |-> loc[t].i, current |-> chain[loc[t].i + 1]]]
            /\ last' = NoRet
       ELSE /\ pc' = [pc EXCEPT ![t] = "idle"]
            /\ loc' = [loc EXCEPT ![t] = NoLoc]
            /\ last' = [op |-> "is_chain_valid", raised |-> "IndexError"]
    /\ dirty' = [dirty EXCEPT ![t] = dirty[t] /\ pc'[t] # "idle"]
    /\ UNCHANGED <<now, instance, objects, initialized, chain, chainLock, holder, clsHolder,
                   returned, parents, everReset, calls, peak, initRuns, tampered, certs, logs>>

\* previous = self.chain[i - 1]; the two tests; the next turn of the loop or return True
ValidPrevious(t) ==
    /\ pc[t] = "valid_prev"
    /\ IF loc[t].i - 1 >= Len(chain)
       THEN /\ pc' = [pc EXCEPT ![t] = "idle"]
            /\ loc' = [loc EXCEPT ![t] = NoLoc]
            /\ last' = [op |-> "is_chain_valid", raised |-> "IndexError"]
       ELSE LET current == loc[t].current
                previous == chain[loc[t].i]
            IN  IF ~HashMatches(current) \/ ~LinkMatches(current, previous)
                THEN /\ pc' = [pc EXCEPT ![t] = "idle"]
                     /\ loc' = [loc EXCEPT ![t] = NoLoc]
                     /\ last' = [op |-> "is_chain_valid", val |-> FALSE,
                                   at |-> loc[t].i, clean |-> ~dirty[t]]
                ELSE IF loc[t].i + 1 < loc[t].n
                THEN /\ pc' = [pc EXCEPT ![t] = "valid_cur"]
                     /\ loc' = [loc EXCEPT ![t] = [op |-> "is_chain_valid", n |-> loc[t].n,
                                                   i |-> loc[t].i + 1]]
                     /\ last' = NoRet
                ELSE /\ pc' = [pc EXCEPT ![t] = "idle"]
                     /\ loc' = [loc EXCEPT ![t] = NoLoc]
                     /\ last' = [op |-> "is_chain_valid", val |-> TRUE,
                                   at |-> loc[t].n, clean |-> ~dirty[t]]
    /\ dirty' = [dirty EXCEPT ![t] = dirty[t] /\ pc'[t] # "idle"]
    /\ UNCHANGED <<now, instance, objects, initialized, chain, chainLock, holder, clsHolder,
                   returned, parents, everReset, calls, peak, initRuns, tampered, certs, logs>>

----------------------------------------------------------------------------
(* A writer outside the Ledger changes one field of one stored Block in place,
   while no call is running. *)

TamperFields == {"index", "timestamp", "data", "previous_hash", "nonce", "current_hash"}

\* What the writer may put in place of the field's value `old`.
TamperValues(field, old) ==
    CASE field = "index" -> {old + 1}
      [] field = "timestamp" -> {old + 1}
      [] field = "nonce" -> {old + 1}
      [] field = "data" -> {[certificate_hash |-> "def456"], GenesisData} \ {old}
      [] field = "previous_hash" -> {ZeroHash, [first |-> 0, pre |-> <<"forged">>]} \ {old}
      [] field = "current_hash" -> {[first |-> 0, pre |-> <<"forged">>]}

Tamper(p, field) ==
    /\ \A t \in Threads : pc[t] = "idle"
    /\ tampered = <<>>
    /\ p \in 0..(Len(chain) - 1)
    /\ \E value \in TamperValues(field, chain[p + 1][field]) :
          chain' = [chain EXCEPT ![p + 1][field] = value]
    /\ tampered' = <<p, field>>
    /\ dirty' = MarkDirty
    /\ last' = NoRet
    /\ UNCHANGED <<now, instance, objects, initialized, chainLock, holder, clsHolder,
                   pc, loc, returned, parents, everReset, calls, peak, initRuns, certs, logs>>

----------------------------------------------------------------------------

\* The calls that change the chain, made by the threads of T.
Mutators(T) ==
    \/ \E t \in T : \E data \in Payloads : AddBlockCall(t, data)
    \/ \E t \in T : AddBlockEnter(t)
    \/ \E t \in T : AddBlockMine(t)
    \/ \E t \in T : AddBlockAppend(t)
    \/ \E t \in T : ResetCall(t)
    \/ \E t \in T : ResetClear(t)
    \/ \E t \in T : ResetGenesis(t)

\* is_chain_valid, called by the threads of T.
Validators(T) ==
    \/ \E t \in T : ValidStart(t)
    \/ \E t \in T : ValidCurrent(t)
    \/ \E t \in T : ValidPrevious(t)

\* The read accessors, called by the threads of T.
Readers(T) ==
    \/ \E t \in T : GetChainLength(t)
    \/ \E t \in T : GetLatestBlock(t)
    \/ Validators(T)

\* add_block and reset calls from every thread.
Next == Mutators(Threads)

Spec == Init /\ [][Next]_vars

\* add_block, reset and the reads from every thread.
NextReaders == Mutators(Threads) \/ Readers(Threads)

SpecReaders == Init /\ [][NextReaders]_vars

\* add_block, reset, get_chain_length and get_latest_block from every thread.
NextAccessors ==
    \/ Mutators(Threads)
    \/ \E t \in Threads : GetChainLength(t)
    \/ \E t \in Threads : GetLatestBlock(t)

SpecAccessors == Init /\ [][NextAccessors]_vars

\* One caller.
Sequential == {1}

\* add_block, reset and get_block from every thread.
NextGetBlock ==
    \/ Mutators(Threads)
    \/ \E t \in Threads : \E index \in Indices : GetBlockTest(t, index)
    \/ \E t \in Threads : GetBlockIndex(t)

SpecGetBlock == Init /\ [][NextGetBlock]_vars

\* add_block and reset from every thread, get_block from one of them: a get_block
\* writes nothing, so a second one beside it changes nothing for either.
NextGetBlockOne ==
    \/ Mutators(Threads)
    \/ \E t \in Sequential : \E index \in Indices : GetBlockTest(t, index)
    \/ \E t \in Sequential : GetBlockIndex(t)

SpecGetBlockOne == Init /\ [][NextGetBlockOne]_vars

\* add_block and reset from every thread, find_by_hash from one of them: a find_by_hash
\* writes nothing, so a second one beside it changes nothing for either.
NextFind ==
    \/ Mutators(Threads)
    \/ \E t \in Sequential : \E certificate_hash \in Queries : FindStart(t, certificate_hash)
    \/ \E t \in Sequential : FindNext(t)

SpecFind == Init /\ [][NextFind]_vars

\* One caller whose find_by_hash queries include None.
NextFindNone ==
    \/ Mutators(Sequential)
    \/ \E t \in Sequential : \E certificate_hash \in Queries \cup {None} :
          FindStart(t, certificate_hash)
    \/ \E t \in Sequential : FindNext(t)

SpecFindNone == Init /\ [][NextFindNone]_vars

\* add_block and reset calls from every thread, some with payloads json.dumps rejects.
NextFailing ==
    \/ Mutators(Threads)
    \/ \E t \in Threads : \E data \in BadPayloads : AddBlockCall(t, data)

SpecFailing == Init /\ [][NextFailing]_vars

\* One caller at a time, and an external writer beside it.
NextTamper ==
    \/ Mutators(Sequential)
    \/ Validators(Sequential)
    \/ \E p \in 0..(MaxChain - 1) : \E field \in TamperFields : Tamper(p, field)

SpecTamper == Init /\ [][NextTamper]_vars

----------------------------------------------------------------------------
(* What a caller can do with the values the Ledger hands out. add_block, get_block,
   find_by_hash and get_latest_block return the Block object that is in the list;
   to_dict builds a new dictionary whose 'data' entry is the Block's own data
   dictionary; add_block stores the caller's dictionary itself as the Block's data. *)

\* Block.to_dict
ToDict(b) ==
    [index |-> b.index, timestamp |-> b.timestamp, data |-> b.data,
     previous_hash |-> b.previous_hash, current_hash |-> b.current_hash, nonce |-> b.nonce]

\* get_all_blocks: [block.to_dict() for block in self.chain]
GetAllBlocks(t) ==
    /\ pc[t] = "idle"
    /\ last' = [op |-> "get_all_blocks", dicts |-> [i \in 1..Len(chain) |-> ToDict(chain[i])]]
    /\ UNCHANGED <<now, instance, objects, initialized, chain, chainLock, holder, clsHolder,
                   pc, loc, returned, parents, everReset, calls, peak, initRuns, tampered, dirty,
                   certs, logs>>

\* d[key] = value
DictSet(d, key, value) ==
    [k \in DOMAIN d \cup {key} |-> IF k = key THEN value ELSE d[k]]

\* The caller has just been returned a Block and assigns one of its attributes:
\* the Block is the one in the list.
MutateReturnedBlock(t, field) ==
    /\ pc[t] = "idle"
    /\ tampered = <<>>
    /\ last.op \in {"add_block", "get_block", "find_by_hash", "get_latest_block"}
    /\ "block" \in DOMAIN last
    /\ LET p == last.block.index + 1
       IN  /\ p <= Len(chain)
           /\ chain[p] = last.block
           /\ \E value \in TamperValues(field, chain[p][field]) :
                 chain' = [chain EXCEPT ![p][field] = value]
           /\ tampered' = <<p - 1, field>>
    /\ last' = [op |-> "mutate", through |-> last.op]
    /\ dirty' = MarkDirty
    /\ UNCHANGED <<now, instance, objects, initialized, chainLock, holder, clsHolder,
                   pc, loc, returned, parents, everReset, calls, peak, initRuns, certs, logs>>

\* The caller has just been returned the dictionaries of get_all_blocks and assigns an
\* entry of one of them (dicts[p][field] = value): the dictionary is the caller's own.
MutateSnapshot(t, p, field) ==
    /\ pc[t] = "idle"
    /\ last.op = "get_all_blocks"
    /\ p \in 0..(Len(last.dicts) - 1)
    /\ last' = [op |-> "mutate", through |-> "get_all_blocks"]
    /\ UNCHANGED <<now, instance, objects, initialized, chain, chainLock, holder, clsHolder,
                   pc, loc, returned, parents, everReset, calls, peak, initRuns, tampered, dirty,
                   certs, logs>>

\* The caller assigns an entry of the 'data' of one of those dictionaries
\* (dicts[p]['data'][key] = value): that is the data dictionary of the stored Block.
MutateSnapshotData(t, p) ==
    /\ pc[t] = "idle"
    /\ tampered = <<>>
    /\ last.op = "get_all_blocks"
    /\ p \in 0..(Len(last.dicts) - 1)
    /\ p < Len(chain)
    /\ chain[p + 1].data = last.dicts[p + 1].data
    /\ chain' = [chain EXCEPT ![p + 1].data = DictSet(@, "certificate_hash", "zzz999")]
    /\ tampered' = <<p, "data">>
    /\ last' = [op |-> "mutate", through |-> "get_all_blocks"]
    /\ dirty' = MarkDirty
    /\ UNCHANGED <<now, instance, objects, initialized, chainLock, holder, clsHolder,
                   pc, loc, returned, parents, everReset, calls, peak, initRuns, certs, logs>>

\* The caller's add_block(data) has just returned and the caller assigns an entry of
\* the dictionary it passed (data[key] = value): that is the data of the new tail.
MutateRetainedPayload(t) ==
    /\ pc[t] = "idle"
    /\ tampered = <<>>
    /\ last.op = "add_block"
    /\ "block" \in DOMAIN last
    /\ chain # <<>>
    /\ chain[Len(chain)] = last.block
    /\ chain' = [chain EXCEPT ![Len(chain)].data = DictSet(@, "certificate_hash", "zzz999")]
    /\ tampered' = <<Len(chain) - 1, "data">>
    /\ last' = [op |-> "mutate", through |-> "payload"]
    /\ dirty' = MarkDirty
    /\ UNCHANGED <<now, instance, objects, initialized, chainLock, holder, clsHolder,
                   pc, loc, returned, parents, everReset, calls, peak, initRuns, certs, logs>>

\* One caller that uses every operation and then writes to what it was handed.
NextOwner ==
    \/ Mutators(Sequential)
    \/ Validators(Sequential)
    \/ \E t \in Sequential : \E index \in Indices : GetBlockTest(t, index)
    \/ \E t \in Sequential : GetBlockIndex(t)
    \/ \E t \in Sequential : \E certificate_hash \in Queries : FindStart(t, certificate_hash)
    \/ \E t \in Sequential : FindNext(t)
    \/ \E t \in Sequential : GetLatestBlock(t)
    \/ \E t \in Sequential : GetAllBlocks(t)
    \/ \E t \in Sequential : \E field \in TamperFields : MutateReturnedBlock(t, field)
    \/ \E t \in Sequential : \E p \in 0..(MaxChain - 1) : \E field \in TamperFields :
          MutateSnapshot(t, p, field)
    \/ \E t \in Sequential : \E p \in 0..(MaxChain - 1) : MutateSnapshotData(t, p)
    \/ \E t \in Sequential : MutateRetainedPayload(t)

SpecOwner == Init /\ [][NextOwner]_vars

----------------------------------------------------------------------------
(* Blockchain(): __new__ and then __init__, from a process in which no thread has
   obtained the Ledger yet. *)

InitFresh ==
    /\ now = 0
    /\ instance = "None"
    /\ objects = 0
    /\ initialized = "unset"
    /\ chain = "unset"
    /\ chainLock = 0
    /\ holder = [l \in Threads |-> 0]
    /\ clsHolder = 0
    /\ pc = [t \in Threads |-> "start"]
    /\ loc = [t \in Threads |-> NoLoc]
    /\ last = NoRet
    /\ returned = <<>>
    /\ parents = <<>>
    /\ everReset = FALSE
    /\ calls = 0
    /\ peak = 0
    /\ initRuns = 0
    /\ tampered = <<>>
    /\ dirty = [t \in Threads |-> FALSE]
    /\ certs = <<>>
    /\ logs = <<>>

\* __new__: the first, unlocked `if cls._instance is None`
NewCheck(t) ==
    /\ pc[t] = "start"
    /\ pc' = [pc EXCEPT ![t] = IF instance = "None" THEN "new_wait" ELSE "new_return"]
    /\ last' = NoRet
    /\ UNCHANGED <<now, instance, objects, initialized, chain, chainLock, holder, clsHolder,
                   loc, returned, parents, everReset, calls, peak, initRuns, tampered, dirty,
                   certs, logs>>

\* __new__: `with cls._lock`, the second test, cls._instance = super().__new__(cls)
NewLocked(t) ==
    /\ pc[t] = "new_wait"
    /\ clsHolder = 0
    /\ IF instance = "None"
       THEN /\ instance' = "obj"
            /\ objects' = objects + 1
            /\ clsHolder' = t
            /\ pc' = [pc EXCEPT ![t] = "new_flag"]
       ELSE /\ pc' = [pc EXCEPT ![t] = "new_return"]
            /\ UNCHANGED <<instance, objects, clsHolder>>
    /\ last' = NoRet
    /\ UNCHANGED <<now, initialized, chain, chainLock, holder,
                   loc, returned, parents, everReset, calls, peak, initRuns, tampered, dirty,
                   certs, logs>>

\* __new__: cls._instance._initialized = False; the class lock is released
NewFlag(t) ==
    /\ pc[t] = "new_flag"
    /\ initialized' = "False"
    /\ clsHolder' = 0
    /\ pc' = [pc EXCEPT ![t] = "new_return"]
    /\ last' = NoRet
    /\ UNCHANGED <<now, instance, objects, chain, chainLock, holder,
                   loc, returned, parents, everReset, calls, peak, initRuns, tampered, dirty,
                   certs, logs>>

\* __init__ without its `if self._initialized: return`.
NeverInitialized(flag) == FALSE

\* `if self._initialized`
IsInitialized(flag) == flag = "True"

\* __new__ returns cls._instance; __init__: `if self._initialized: return`
InitTest(t) ==
    /\ pc[t] = "new_return"
    /\ IF initialized = "unset"
       THEN \* the attribute does not exist yet: AttributeError
            /\ pc' = [pc EXCEPT ![t] = "failed"]
            /\ last' = [op |-> "Blockchain", raised |-> "AttributeError"]
            /\ UNCHANGED initRuns
       ELSE IF IsInitialized(initialized)
       THEN /\ pc' = [pc EXCEPT ![t] = "idle"]
            /\ last' = [op |-> "Blockchain"]
            /\ UNCHANGED initRuns
       ELSE /\ pc' = [pc EXCEPT ![t] = "init_chain"]
            /\ initRuns' = initRuns + 1
            /\ last' = NoRet
    /\ UNCHANGED <<now, instance, objects, initialized, chain, chainLock, holder, clsHolder,
                   loc, returned, parents, everReset, calls, peak, tampered, dirty, certs, logs>>

\* __init__: self.chain = []
InitChain(t) ==
    /\ pc[t] = "init_chain"
    /\ chain' = <<>>
    /\ pc' = [pc EXCEPT ![t] = "init_lock"]
    /\ dirty' = MarkDirty
    /\ last' = NoRet
    /\ UNCHANGED <<now, instance, objects, initialized, chainLock, holder, clsHolder,
                   loc, returned, parents, everReset, calls, peak, initRuns, tampered, certs, logs>>

\* __init__: self._chain_lock = threading.Lock(), a new lock object
InitLock(t) ==
    /\ pc[t] = "init_lock"
    /\ chainLock' = chainLock + 1
    /\ pc' = [pc EXCEPT ![t] = "init_genesis"]
    /\ last' = NoRet
    /\ UNCHANGED <<now, instance, objects, initialized, chain, holder, clsHolder,
                   loc, returned, parents, everReset, calls, peak, initRuns, tampered, dirty,
                   certs, logs>>

\* __init__: self._create_genesis_block()
InitGenesis(t) ==
    /\ pc[t] = "init_genesis"
    /\ \E time \in ClockReadings :
          /\ now' = time
          /\ chain' = Append(chain, GenesisBlock(time))
    /\ pc' = [pc EXCEPT ![t] = "init_flag"]
    /\ dirty' = MarkDirty
    /\ last' = NoRet
    /\ UNCHANGED <<instance, objects, initialized, chainLock, holder, clsHolder,
                   loc, returned, parents, everReset, calls, peak, initRuns, tampered, certs, logs>>

\* __init__: self._initialized = True
InitFlag(t) ==
    /\ pc[t] = "init_flag"
    /\ initialized' = "True"
    /\ pc' = [pc EXCEPT ![t] = "idle"]
    /\ last' = [op |-> "Blockchain"]
    /\ UNCHANGED <<now, instance, objects, chain, chainLock, holder, clsHolder,
                   loc, returned, parents, everReset, calls, peak, initRuns, tampered, dirty,
                   certs, logs>>

\* The first calls, and the appends of the threads that have obtained the Ledger.
NextConstruct ==
    \/ \E t \in Threads : \E data \in Payloads : AddBlockCall(t, data)
    \/ \E t \in Threads : AddBlockEnter(t)
    \/ \E t \in Threads : AddBlockMine(t)
    \/ \E t \in Threads : AddBlockAppend(t)
    \/ \E t \in Threads : NewCheck(t)
    \/ \E t \in Threads : NewLocked(t)
    \/ \E t \in Threads : NewFlag(t)
    \/ \E t \in Threads : InitTest(t)
    \/ \E t \in Threads : InitChain(t)
    \/ \E t \in Threads : InitLock(t)
    \/ \E t \in Threads : InitGenesis(t)
    \/ \E t \in Threads : InitFlag(t)

\* Threads that make their first call to obtain the Ledger, and then use it.
SpecConstruct == InitFresh /\ [][NextConstruct]_vars

\* A thread that has the Ledger calls Blockchain() again.
BlockchainCall(t) ==
    /\ pc[t] = "idle"
    /\ pc' = [pc EXCEPT ![t] = "start"]
    /\ loc' = [loc EXCEPT ![t] = [op |-> "Blockchain", again |-> TRUE]]
    /\ last' = NoRet
    /\ UNCHANGED <<now, instance, objects, initialized, chain, chainLock, holder, clsHolder,
                   returned, parents, everReset, calls, peak, initRuns, tampered, dirty, certs,
                   logs>>

\* First calls, appends, and further Blockchain() calls.
NextSingleton ==
    \/ NextConstruct
    \/ \E t \in Threads : BlockchainCall(t)

SpecSingleton == InitFresh /\ [][NextSingleton]_vars

----------------------------------------------------------------------------
(* Progress of the callers *)

\* add_block (some with payloads json.dumps rejects), reset, get_chain_length and
\* get_latest_block from every thread.
NextLive ==
    \/ NextFailing
    \/ \E t \in Threads : GetChainLength(t)
    \/ \E t \in Threads : GetLatestBlock(t)

\* A thread that is runnable is scheduled: the steps a call takes while it holds the
\* lock (a turn of the loop, the append, the genesis of reset) are taken once they can
\* be. threading.Lock hands the lock to no waiter in particular, so a waiter that
\* finds the lock free again and again gets it at some point.
Scheduling ==
    \A t \in Threads :
        /\ SF_vars(AddBlockEnter(t))
        /\ SF_vars(ResetClear(t))
        /\ WF_vars(AddBlockMine(t))
        /\ WF_vars(AddBlockAppend(t))
        /\ WF_vars(ResetGenesis(t))

SpecLive == Init /\ [][NextLive]_vars /\ Scheduling

----------------------------------------------------------------------------
(* verification/views.py: upload_certificate, one request at a time *)

\* The files colleges upload.
Files == {"a.pdf", "b.pdf"}

\* HashService.hash_file: the hex digest of the file's bytes.
HashFile(file) == IF file = "a.pdf" THEN "abc123" ELSE "def456"

\* certificate.transaction_id = str(uuid.uuid4()): a string no other row has; the n-th
\* row gets the n-th of these.
TransactionId(n) == <<"tx-1", "tx-2", "tx-3", "tx-4", "tx-5">>[n]

\* block_data of upload_certificate (the student, type and institution of the form;
\* title and timestamp are left out).
BlockData(file_hash, transaction_id) ==
    [certificate_hash |-> file_hash,
     student_name |-> "Alice",
     student_id |-> "S1",
     certificate_type |-> "academic",
     transaction_id |-> transaction_id,
     institution |-> "College"]

\* The proof-of-work loop of add_block run to its end.
RECURSIVE Mined(_)
Mined(b) == IF StartsWithZero(b.current_hash) THEN b ELSE Mined(MineStep(b))

\* The row certificate.save() inserts at Step 1: file_hash '', block_index NULL,
\* block_hash ''. A column that may be empty is a sequence of at most one value.
SavedRow(file) == [file |-> file, file_hash |-> "", block_index |-> <<>>, block_hash |-> <<>>]

\* `except Exception`: the error is logged and shown; the row of Step 1 stays.
RowsAfterFailure(rows, file) == Append(rows, SavedRow(file))

\* Step 5: block_index and block_hash are set from new_block; certificate.save().
RowsAfterSuccess(rows, file, file_hash, new_block) ==
    Append(rows, [file |-> file, file_hash |-> file_hash,
                  block_index |-> <<new_block.index>>,
                  block_hash |-> <<new_block.current_hash>>])

\* A POST to upload_certificate with a valid form, served while no other call is in
\* progress. `readable` says whether hash_file can open the saved file; when it
\* cannot, hash_file raises and the handler goes to its except clause. The tests on
\* MaxChain keep the chain and the table within the bound.
UploadCertificate(t, file, readable) ==
    /\ pc[t] = "idle"
    /\ chain # <<>>
    /\ LockFree(chainLock)
    /\ Len(certs) < MaxChain
    /\ Len(chain) < MaxChain
    /\ calls < MaxChain
    /\ IF ~readable
       THEN /\ certs' = RowsAfterFailure(certs, file)
            /\ last' = [op |-> "upload_certificate", id |-> Len(certs) + 1,
                        raised |-> "OSError"]
            /\ UNCHANGED <<now, chain, returned, parents, calls, peak, dirty>>
       ELSE \E time \in ClockReadings :
            LET file_hash == HashFile(file)
                previous_block == PreviousBlock(chain)
                new_block == Mined(NewBlock(NextIndex(chain), BlockData(file_hash, TransactionId(Len(certs) + 1)),
                                            previous_block.current_hash, time))
            IN  /\ now' = time
                /\ chain' = ChainAppend(chain, new_block)
                /\ certs' = RowsAfterSuccess(certs, file, file_hash, new_block)
                /\ last' = [op |-> "upload_certificate", id |-> Len(certs) + 1,
                            block |-> new_block]
                /\ returned' = Append(returned, new_block)
                /\ parents' = Append(parents,
                                     <<previous_block.index, previous_block.current_hash>>)
                /\ calls' = IF everReset THEN calls ELSE calls + 1
                /\ peak' = IF ~everReset /\ peak < 1 THEN 1 ELSE peak
                /\ dirty' = MarkDirty
    /\ UNCHANGED <<instance, objects, initialized, chainLock, holder, clsHolder,
                   pc, loc, everReset, initRuns, tampered, logs>>

\* Uploads and reset calls from one caller.
NextUpload ==
    \/ \E t \in Sequential : ResetCall(t)
    \/ \E t \in Sequential : ResetClear(t)
    \/ \E t \in Sequential : ResetGenesis(t)
    \/ \E t \in Sequential : \E file \in Files : \E readable \in BOOLEAN :
          UploadCertificate(t, file, readable)

SpecUpload == Init /\ [][NextUpload]_vars

----------------------------------------------------------------------------
(* verification/views.py: verify_certificate, one request at a time *)

\* find_by_hash run from its first turn to its return with no other call in between:
\* the first Block of the list that matches, or None. The result is a sequence of at
\* most one Block, None being the empty one.
RECURSIVE FindByHashFrom(_, _, _)
FindByHashFrom(c, i, certificate_hash) ==
    IF i > Len(c) THEN <<>>
    ELSE IF Matches(c[i], certificate_hash) THEN <<c[i]>>
    ELSE FindByHashFrom(c, i + 1, certificate_hash)

FindByHash(c, certificate_hash) == FindByHashFrom(c, 1, certificate_hash)

\* dict.get(key, default)
DictGetOr(d, key, default) == IF key \in DOMAIN d THEN d[key] ELSE default

\* verify_certificate recording 'not_found' when the lookup returns None.
StatusWithNotFound(block) == IF block # <<>> THEN "verified" ELSE "not_found"

\* Step 4: `if block: status = 'verified'` / `else: status = 'tampered'`
StatusOf(block) == IF block # <<>> THEN "verified" ELSE "tampered"

\* VerificationLog.objects.create(...): the columns taken from the request and from the
\* Block the lookup returned (matched_certificate and ocr_text are left out). A column
\* that may be empty is a sequence of at most one value.
NewLog(file, file_hash, block) ==
    [uploaded_file_name |-> file,
     uploaded_file_hash |-> file_hash,
     status |-> StatusOf(block),
     block_index |-> IF block # <<>> THEN <<block[1].index>> ELSE <<>>,
     block_hash |-> IF block # <<>> THEN <<block[1].current_hash>> ELSE <<>>,
     transaction_id |-> IF block # <<>>
                        THEN DictGetOr(block[1].data, "transaction_id", "")
                        ELSE ""]

\* A POST to verify_certificate with a valid form, served while no other call is in
\* progress. When hash_file cannot open the temporary file it raises and the handler
\* goes to its except clause: no row is written. The test on MaxLogs keeps the table
\* within the bound.
VerifyCertificate(t, file, readable) ==
    /\ pc[t] = "idle"
    /\ Len(logs) < MaxLogs
    /\ IF ~readable
       THEN /\ last' = [op |-> "verify_certificate", raised |-> "OSError"]
            /\ UNCHANGED logs
       ELSE LET file_hash == HashFile(file)
                block == FindByHash(chain, file_hash)
            IN  /\ logs' = Append(logs, NewLog(file, file_hash, block))
                /\ last' = [op |-> "verify_certificate", id |-> Len(logs) + 1]
    /\ UNCHANGED <<now, instance, objects, initialized, chain, chainLock, holder, clsHolder,
                   pc, loc, returned, parents, everReset, calls, peak, initRuns, tampered,
                   dirty, certs>>

\* A payload that carries the hash of a file and no transaction_id.
BarePayloads == {[certificate_hash |-> HashFile("a.pdf"), student_id |-> "S1"]}

\* Verifications, uploads, add_block and reset calls from one caller.
NextVerify ==
    \/ \E t \in Sequential : \E data \in BarePayloads : AddBlockCall(t, data)
    \/ \E t \in Sequential : AddBlockEnter(t)
    \/ \E t \in Sequential : AddBlockMine(t)
    \/ \E t \in Sequential : AddBlockAppend(t)
    \/ \E t \in Sequential : ResetCall(t)
    \/ \E t \in Sequential : ResetClear(t)
    \/ \E t \in Sequential : ResetGenesis(t)
    \/ \E t \in Sequential : \E file \in Files : UploadCertificate(t, file, TRUE)
    \/ \E t \in Sequential : \E file \in Files : \E readable \in BOOLEAN :
          VerifyCertificate(t, file, readable)

SpecVerify == Init /\ [][NextVerify]_vars

----------------------------------------------------------------------------
(* verification/decorators.py: role_required *)

\* UserProfile.ROLE_CHOICES
Roles == {"college", "company"}

\* request.user: AnonymousUser, or a logged-in User with no profile or with a profile
\* of either role. The profile is a sequence of at most one role, empty when the User
\* has no profile attribute.
Users ==
    {[is_authenticated |-> FALSE, profile |-> <<>>]}
        \cup {[is_authenticated |-> TRUE, profile |-> p] :
                 p \in {<<>>} \cup {<<r>> : r \in Roles}}

\* The views of views.py under @role_required, with the role each one names.
WrappedViews ==
    {[view |-> "upload_certificate", role |-> "college"],
     [view |-> "add_student", role |-> "college"],
     [view |-> "verify_certificate", role |-> "company"],
     [view |-> "verification_history", role |-> "company"]}

\* hasattr(request.user, 'profile')
HasProfile(user) == user.profile # <<>>

\* wrapper without its test on request.user.profile.role.
WrapperAnyRole(user, role) ==
    IF ~user.is_authenticated THEN "login"
    ELSE IF ~HasProfile(user) THEN "login"
    ELSE "view_func"

\* wrapper: where the three tests send the request, the name of the URL it is
\* redirected to or "view_func" when view_func is called.
Wrapper(user, role) ==
    IF ~user.is_authenticated THEN "login"
    ELSE IF ~HasProfile(user) THEN "login"
    ELSE IF user.profile[1] # role THEN "dashboard"
    ELSE "view_func"

\* A request for a wrapped view reaches wrapper: it returns a redirect, or goes on to
\* `return view_func(request, *args, **kwargs)`.
WrapperCall(t, user, wrapped) ==
    /\ pc[t] = "idle"
    /\ LET to == Wrapper(user, wrapped.role)
       IN  IF to = "view_func"
           THEN /\ pc' = [pc EXCEPT ![t] = "view_func"]
                /\ loc' = [loc EXCEPT ![t] = [op |-> "wrapper", view |-> wrapped.view,
                                              role |-> wrapped.role, user |-> user]]
                /\ last' = NoRet
           ELSE /\ last' = [op |-> "wrapper", view |-> wrapped.view, role |-> wrapped.role,
                            user |-> user, redirect |-> to]
                /\ UNCHANGED <<pc, loc>>
    /\ UNCHANGED <<now, instance, objects, initialized, chain, chainLock, holder, clsHolder,
                   returned, parents, everReset, calls, peak, initRuns, tampered, dirty,
                   certs, logs>>

\* view_func(request, *args, **kwargs): the body of the view runs and wrapper returns
\* its response.
ViewFunc(t) ==
    /\ pc[t] = "view_func"
    /\ pc' = [pc EXCEPT ![t] = "idle"]
    /\ loc' = [loc EXCEPT ![t] = NoLoc]
    /\ last' = [op |-> "view_func", view |-> loc[t].view, role |-> loc[t].role,
                user |-> loc[t].user]
    /\ UNCHANGED <<now, instance, objects, initialized, chain, chainLock, holder, clsHolder,
                   returned, parents, everReset, calls, peak, initRuns, tampered, dirty,
                   certs, logs>>

\* Requests for the wrapped views from every thread.
NextRoles ==
    \/ \E t \in Threads : \E user \in Users : \E wrapped \in WrappedViews :
          WrapperCall(t, user, wrapped)
    \/ \E t \in Threads : ViewFunc(t)

SpecRoles == Init /\ [][NextRoles]_vars

----------------------------------------------------------------------------
(* The claims *)

Linked(c) == \A i \in 2..Len(c) : c[i].previous_hash = c[i - 1].current_hash

Intact(c) == \A i \in 1..Len(c) : c[i].current_hash = CalculateHash(c[i])

NoAppendRunning == \A t \in Threads : ~InAddBlock(t)

\* C1: with only add_block and reset calls at work, from any number of threads, every
\* Block after the first holds as previous_hash the current_hash of the Block before it.
C1_ChainLinkage == Linked(chain)

C1_Witness == everReset /\ Len(chain) >= 3

\* C2: with only add_block and reset calls at work, the current_hash stored in every
\* Block of the chain, the genesis Block included, is the hash of its five other fields.
C2_ContentIntegrity == Intact(chain)

C2_Witness == \E i \in 1..Len(chain) : chain[i].nonce >= 2

\* C3: the Block at position i of the chain has index i, also after a reset followed
\* by further appends.
C3_MonotonicPositions == \A i \in 1..Len(chain) : chain[i].index = i - 1

C3_Witness == everReset /\ Len(returned) >= 1 /\ Len(chain) = Len(returned) + 1

\* C4: when K add_block calls, made concurrently and with no reset, have all returned,
\* the chain holds exactly K new Blocks, the K returned Blocks have the distinct
\* indices 1..K, and the chain is linked and intact.
C4_ConcurrentAppendSafety ==
    (~everReset /\ NoAppendRunning) =>
        /\ Len(chain) = calls + 1
        /\ Len(returned) = calls
        /\ {returned[i].index : i \in 1..Len(returned)} = 1..calls
        /\ \A i, j \in 1..Len(returned) : i < j => returned[i].index < returned[j].index
        /\ \A i \in 1..Len(returned) : chain[returned[i].index + 1] = returned[i]
        /\ Linked(chain)
        /\ Intact(chain)

C4_Witness == ~everReset /\ NoAppendRunning /\ calls >= 2 /\ peak >= 2

\* C5: no two completed add_block calls with no reset between them took the same tail
\* (index and hash) as their parent.
C5_DistinctParents ==
    \A i, j \in 1..Len(parents) : i # j => parents[i] # parents[j]

C5_Witness == Len(parents) >= 2 /\ peak >= 2 /\ parents[1][1] = 0 /\ parents[2][1] = 1

\* C6: when several threads make their first Blockchain() call at once, one Ledger is
\* built, __init__ runs its body once, no caller meets a half-built instance, and no
\* Block a caller was handed by add_block is dropped by another caller's __init__.
C6_SingletonInitialization ==
    /\ objects <= 1
    /\ initRuns <= 1
    /\ \A t \in Threads : pc[t] # "failed"
    /\ chain # "unset" =>
         \A i \in 1..Len(returned) : \E k \in 1..Len(chain) : chain[k] = returned[i]

\* C7: after one of the fields index, data, previous_hash, nonce, timestamp of any
\* stored Block, the genesis Block included, was changed, is_chain_valid returns False.
C7_TamperDetected ==
    ( /\ last.op = "is_chain_valid"
      /\ "val" \in DOMAIN last
      /\ last.clean
      /\ tampered # <<>>
      /\ tampered[2] # "current_hash" ) => last.val = FALSE

\* C8: is_chain_valid returns True exactly when every Block at position i >= 1 has a
\* current_hash equal to its recomputed hash and a previous_hash equal to the
\* current_hash of the Block before it, it returns False at the first Block that fails
\* either test, and it returns True on a chain only add_block and reset built.
FailingPositions(c) ==
    {i \in 1..(Len(c) - 1) :
        \/ c[i + 1].current_hash # CalculateHash(c[i + 1])
        \/ c[i + 1].previous_hash # c[i].current_hash}

C8_ValidateResult ==
    (last.op = "is_chain_valid" /\ "val" \in DOMAIN last /\ last.clean) =>
        /\ last.val = (FailingPositions(chain) = {})
        /\ ~last.val =>
             /\ last.at \in FailingPositions(chain)
             /\ \A i \in FailingPositions(chain) : last.at <= i
        /\ tampered = <<>> => last.val

C8_Witness ==
    /\ last.op = "is_chain_valid"
    /\ "val" \in DOMAIN last
    /\ last.clean
    /\ ~last.val
    /\ last.at = 2

\* C9: every read returns what it would return on a chain that exists between two
\* completed add_block or reset calls: no get_chain_length returns 0, no
\* get_latest_block fails on an empty chain, and is_chain_valid returns True, the
\* result on every such chain.
C9_ConsistentReads ==
    /\ last.op = "get_chain_length" => last.val >= 1
    /\ last.op = "get_latest_block" => "block" \in DOMAIN last
    /\ last.op = "is_chain_valid" => ("val" \in DOMAIN last /\ last.val)

\* C10: is_chain_valid never raises, whatever add_block and reset calls run beside it.
C10_ValidateNeverRaises ==
    ~(last.op = "is_chain_valid" /\ "raised" \in DOMAIN last)

\* The step in which thread t's add_block appends and returns.
AppendStepOf(t) == pc[t] = "add_mine" /\ pc'[t] = "idle"

\* A step of thread t's add_block before that one: the lock and the new Block, or one
\* turn of the proof-of-work loop.
MiningStepOf(t) == pc'[t] = "add_mine" /\ loc'[t] # loc[t]

\* C14: the step in which an add_block call appends makes the chain one Block longer and
\* leaves every Block that was in it at its position with its fields, and the Ledger's
\* other attributes as they were; the steps of the call before it leave the chain alone.
C14_AppendFrame ==
    [][\A t \in Threads :
          /\ AppendStepOf(t) =>
                /\ Len(chain') = Len(chain) + 1
                /\ \A i \in 1..Len(chain) : chain'[i] = chain[i]
                /\ <<instance, objects, initialized, chainLock, clsHolder>>'
                     = <<instance, objects, initialized, chainLock, clsHolder>>
          /\ MiningStepOf(t) => chain' = chain]_vars

C14_Witness ==
    /\ last.op = "add_block"
    /\ "block" \in DOMAIN last
    /\ last.block.index = 2
    /\ Len(chain) = 3

\* C15: the Block add_block returns has as index the length the chain had when the call
\* took the lock (no other call changes the chain from then until the append), as
\* previous_hash the current_hash of the tail at that time, as data the caller's
\* payload, and it is the Block stored as the new tail, with its mined nonce and hash.
C15_AppendResult ==
    [][\A t \in Threads :
          AppendStepOf(t) =>
             /\ "block" \in DOMAIN last'
             /\ last'.block.index = Len(chain)
             /\ last'.block.previous_hash = chain[Len(chain)].current_hash
             /\ last'.block.data = loc[t].data
             /\ chain'[Len(chain')] = last'.block
             /\ last'.block.current_hash = CalculateHash(last'.block)
             /\ last'.block.current_hash.first = 0]_vars

C15_Witness ==
    /\ everReset
    /\ last.op = "add_block"
    /\ "block" \in DOMAIN last
    /\ last.block.nonce >= 1
    /\ last.block.data = [certificate_hash |-> "abc123", student_id |-> "S1"]

\* C16: every Block of the chain after the genesis Block has a current_hash whose first
\* hex character is '0'.
C16_MiningDifficulty == \A i \in 2..Len(chain) : chain[i].current_hash.first = 0

C16_Witness ==
    /\ Len(chain) >= 3
    /\ \A i \in 2..Len(chain) : chain[i].nonce >= 1
    /\ chain[1].current_hash.first # 0

\* The hash a Block would have with its nonce set to n.
HashWithNonce(b, n) == CalculateHash([b EXCEPT !.nonce = n])

\* C17: the nonce of every Block of the chain after the genesis Block is the least
\* n >= 0 for which the hash of (index, timestamp, data, previous_hash, n) starts
\* with '0'.
C17_MinimalCounter ==
    \A i \in 2..Len(chain) :
        /\ HashWithNonce(chain[i], chain[i].nonce).first = 0
        /\ \A n \in 0..(chain[i].nonce - 1) : HashWithNonce(chain[i], n).first # 0

C17_Witness ==
    /\ \E i \in 2..Len(chain) : chain[i].nonce = 3
    /\ \E i \in 2..Len(chain) : chain[i].nonce = 0

\* No reset() is between its `self.chain = []` and its new genesis Block.
NoResetRunning == \A t \in Threads : pc[t] # "reset_genesis"

\* C13: on a Ledger that add_block has returned from N times since it was built or last
\* reset, with no reset at work, get_chain_length returns N + 1 and get_latest_block
\* returns a Block of index N, whatever add_block calls are in progress beside the read.
C13_AppendMonotonicity ==
    NoResetRunning =>
        /\ last.op = "get_chain_length" => last.val = Len(returned) + 1
        /\ last.op = "get_latest_block" =>
              /\ "block" \in DOMAIN last
              /\ last.block.index = Len(returned)

C13_Witness ==
    /\ NoResetRunning
    /\ last.op = "get_latest_block"
    /\ "block" \in DOMAIN last
    /\ last.block.index = 2
    /\ Len(returned) = 2

\* The step in which thread t's add_block raises.
RaiseStepOf(t) == pc[t] = "add_wait" /\ pc'[t] = "idle"

\* C12: an add_block call whose payload json.dumps rejects reports TypeError to its
\* caller, leaves the chain as it was, and leaves the lock free, so that the next call
\* waiting for it can go on; no Block that is not hashed and mined is ever in the chain.
C12_FailureAtomicity ==
    [][/\ \A t \in Threads :
             RaiseStepOf(t) =>
                /\ ~JsonSerializable(loc[t].data)
                /\ last' = [op |-> "add_block", raised |-> "TypeError"]
                /\ chain' = chain
                /\ chainLock' = chainLock
                /\ holder'[chainLock] = 0
                /\ \A u \in Threads : pc'[u] = "add_wait" => ENABLED AddBlockEnter(u)
       /\ \A t \in Threads :
             (MiningStepOf(t) /\ ~JsonSerializable(loc[t].data)) => FALSE
       /\ \A i \in 1..Len(chain') :
             /\ chain'[i].current_hash = CalculateHash(chain'[i])
             /\ i > 1 => chain'[i].current_hash.first = 0
             /\ JsonSerializable(chain'[i].data)]_vars

C12_Witness ==
    /\ last = [op |-> "add_block", raised |-> "TypeError"]
    /\ everReset
    /\ \E u \in Threads : pc[u] = "add_wait" /\ JsonSerializable(loc[u].data)

\* The certificate_hash of a Block's data, None when the data has no such key.
Fingerprint(block) ==
    IF "certificate_hash" \in DOMAIN block.data THEN block.data.certificate_hash ELSE None

\* The positions (from 1) of the Blocks of a list that carry the certificate hash q.
Carriers(list, q) == {i \in 1..Len(list) : Fingerprint(list[i]) = q}

\* C18: a find_by_hash(H) called after an add_block of a payload with certificate_hash H
\* has returned, with no reset since that add_block until the find returns, returns a
\* Block whose certificate_hash is H; it returns the Block that add_block returned
\* whenever no Block before it in the chain carries H.
C18_FingerprintRoundTrip ==
    (last.op = "find_by_hash" /\ last.due /\ last.live) =>
        /\ "block" \in DOMAIN last
        /\ Fingerprint(last.block) = last.query
        /\ \A k \in 1..Len(returned) :
              ( /\ Fingerprint(returned[k]) = last.query
                /\ \A j \in 1..returned[k].index : Fingerprint(chain[j]) # last.query )
              => last.block = returned[k]

C18_Witness ==
    /\ last.op = "find_by_hash"
    /\ last.due
    /\ last.live
    /\ "block" \in DOMAIN last
    /\ last.block.index = 2
    /\ last.query = "def456"
    /\ Fingerprint(chain[2]) = "abc123"

\* The certificate hashes some add_block call was given, and the one of the genesis data.
PassedHashes ==
    {d.certificate_hash : d \in {e \in Payloads : "certificate_hash" \in DOMAIN e}}
        \cup {GenesisData.certificate_hash}

\* C19: find_by_hash(f) returns, of the Blocks of the list it went through that carry the
\* certificate hash f, the one at the lowest position, and None exactly when that list
\* has none; the list is the chain as it is when the call returns, or, for a call that
\* a reset overtook, the chain as that reset found it; a hash no add_block was given and
\* that is not the genesis data's gives None.
C19_FindByHash ==
    last.op = "find_by_hash" =>
        LET list == IF last.live THEN chain ELSE last.list
            found == Carriers(list, last.query)
        IN  /\ "raised" \notin DOMAIN last
            /\ "val" \in DOMAIN last <=> found = {}
            /\ "val" \in DOMAIN last => last.val = None
            /\ found # {} =>
                  /\ "block" \in DOMAIN last
                  /\ \E i \in found : last.block = list[i] /\ \A j \in found : i <= j
            /\ last.query \notin PassedHashes => "val" \in DOMAIN last

C19_Witness ==
    /\ last.op = "find_by_hash"
    /\ "block" \in DOMAIN last
    /\ last.block.index = 1
    /\ Len(chain) = 3
    /\ Fingerprint(chain[3]) = last.query

\* C20: get_block(index) never raises; it returns the Block at that index of the chain,
\* whose index field is the index asked for, or None, and None only for an index that
\* is negative or not below the length of the chain.
C20_GetBlock ==
    last.op = "get_block" =>
        /\ "raised" \notin DOMAIN last
        /\ "block" \in DOMAIN last =>
              /\ last.block.index = last.index
              /\ last.index < Len(chain)
              /\ chain[last.index + 1] = last.block
        /\ "val" \in DOMAIN last =>
              /\ last.val = None
              /\ last.index < 0 \/ last.index >= Len(chain)

\* C11: no write a caller makes to a value the Ledger handed it (a returned Block, a
\* dictionary of get_all_blocks or its data) or to the payload it passed to add_block
\* changes a Block of the chain, and is_chain_valid returns True afterwards as before.
C11_Ownership ==
    /\ [][last'.op = "mutate" => chain' = chain]_vars
    /\ []((last.op = "is_chain_valid" /\ "val" \in DOMAIN last) => last.val)

\* A Block of the shape _create_genesis_block gives: index 0, '0' * 64 as previous_hash,
\* the genesis data, nonce 0, and the hash of these.
GenesisShaped(b) ==
    /\ b.index = 0
    /\ b.previous_hash = ZeroHash
    /\ b.data = GenesisData
    /\ b.nonce = 0
    /\ b.current_hash = CalculateHash(b)

\* C22: when reset() returns, whatever the chain held and whatever calls run beside it,
\* the chain is one genesis-shaped Block and nothing else; and the first add_block to
\* return after a reset returned a Block of index 1 whose previous_hash is the
\* current_hash of that new genesis Block.
C22_ResetSemantics ==
    /\ last.op = "reset" =>
          /\ Len(chain) = 1
          /\ GenesisShaped(chain[1])
          /\ returned = <<>>
    /\ (everReset /\ Len(returned) >= 1) =>
          /\ returned[1].index = 1
          /\ Len(chain) >= 2
          /\ GenesisShaped(chain[1])
          /\ returned[1].previous_hash = chain[1].current_hash
          /\ chain[2] = returned[1]

C22_Witness ==
    /\ last.op = "reset"
    /\ chain[1].timestamp = MaxTime
    /\ \E t \in Threads : pc[t] = "add_wait"

\* C26: every Block add_block has returned since the last reset is in the chain at its
\* index, with the fields it had when it was returned; and no step but the
\* `self.chain = []` of a reset makes the chain shorter or changes a Block in it.
C26_AppendOnlyStability ==
    /\ [](\A k \in 1..Len(returned) :
             /\ returned[k].index < Len(chain)
             /\ chain[returned[k].index + 1] = returned[k])
    /\ [][(\E t \in Threads : pc[t] = "reset_wait" /\ pc'[t] = "reset_genesis")
          \/ ( /\ Len(chain') >= Len(chain)
               /\ \A i \in 1..Len(chain) : chain'[i] = chain[i] )]_vars

C26_Witness ==
    /\ ~everReset
    /\ Len(returned) = 2
    /\ \E t \in Threads : pc[t] = "reset_wait"

\* C28: a turn of the proof-of-work loop adds exactly 1 to the nonce of the new Block
\* and sets its current_hash to the hash of its fields; index, timestamp, data and
\* previous_hash stay as Block.__init__ set them; the nonce starts at 0; and the chain
\* is not touched before the append.
C28_MiningFrame ==
    [][\A t \in Threads :
          /\ (pc[t] = "add_mine" /\ pc'[t] = "add_mine" /\ loc'[t] # loc[t]) =>
                LET old == loc[t].new_block
                    new == loc'[t].new_block
                IN  /\ new.nonce = old.nonce + 1
                    /\ new.index = old.index
                    /\ new.timestamp = old.timestamp
                    /\ new.data = old.data
                    /\ new.previous_hash = old.previous_hash
                    /\ new.current_hash = CalculateHash(new)
                    /\ chain' = chain
          /\ (pc[t] = "add_wait" /\ pc'[t] = "add_mine") =>
                /\ loc'[t].new_block.nonce = 0
                /\ loc'[t].new_block.timestamp = now'
                /\ loc'[t].new_block.data = loc[t].data
                /\ chain' = chain
          /\ AppendStepOf(t) =>
                /\ chain'[Len(chain')] = loc[t].new_block
                /\ loc[t].new_block.timestamp <= now]_vars

C28_Witness ==
    \E t \in Threads :
        /\ pc[t] = "add_mine"
        /\ loc[t].new_block.nonce = 2
        /\ loc[t].new_block.index = 2

\* A Block whose current_hash is the hash of its fields and, unless it is a genesis
\* Block, starts with '0'.
Converged(b) ==
    /\ b.current_hash = CalculateHash(b)
    /\ b.index >= 1 => b.current_hash.first = 0

\* C25: at every point of every interleaving of add_block, reset and get_block calls,
\* every Block in the list self.chain is bound to, and every Block a get_block has
\* returned, has its mined nonce and hash, and no Block that an add_block is still
\* constructing or mining is in that list.
C25_NoMiningRecordVisible ==
    /\ \A i \in 1..Len(chain) : Converged(chain[i])
    /\ \A t \in Threads :
          pc[t] = "add_mine" => \A i \in 1..Len(chain) : chain[i] # loc[t].new_block
    /\ (last.op = "get_block" /\ "block" \in DOMAIN last) => Converged(last.block)

C25_Witness ==
    /\ last.op = "get_block"
    /\ "block" \in DOMAIN last
    /\ last.block.index = 1
    /\ \E t \in Threads :
          /\ pc[t] = "add_mine"
          /\ loc[t].new_block.nonce >= 1
          /\ loc[t].new_block.current_hash.first # 0

\* C29: a Block find_by_hash returns has a data dictionary with a certificate_hash key
\* whose value is the value asked for, whatever that value is, None included.
C29_FoundCarriesHash ==
    (last.op = "find_by_hash" /\ "block" \in DOMAIN last) =>
        /\ "certificate_hash" \in DOMAIN last.block.data
        /\ last.block.data.certificate_hash = last.query

\* C21: when a Blockchain() call that ran the body of __init__ returns, the chain is one
\* Block: index 0, previous_hash '0' * 64, the genesis data, nonce 0.
C21_GenesisDeterminism ==
    [][\A t \in Threads :
          (pc[t] = "init_flag" /\ pc'[t] = "idle") =>
             /\ Len(chain') = 1
             /\ GenesisShaped(chain'[1])]_vars

\* Some Blockchain() call has returned.
SomeCallCompleted ==
    \E u \in Threads : pc[u] \in {"idle", "add_wait", "add_mine"} \/ loc[u].op = "Blockchain"

\* C23: once a Blockchain() call has returned, the instance exists and is marked
\* initialized, and every step of a call that starts from then on, or that has not yet
\* tested the mark, leaves the instance, the chain with its Blocks and the lock object
\* as they are and ends the call without running the body of __init__.
C23_IdempotentSingleton ==
    /\ [](SomeCallCompleted => (instance = "obj" /\ initialized = "True" /\ objects = 1))
    /\ [][\A t \in Threads :
             (SomeCallCompleted /\ pc[t] \in {"start", "new_return"} /\ pc'[t] # pc[t]) =>
                /\ pc'[t] \in {"new_return", "idle"}
                /\ <<instance, objects, initialized, chain, chainLock, holder, initRuns>>'
                     = <<instance, objects, initialized, chain, chainLock, holder, initRuns>>]_vars

C23_Witness ==
    /\ last = [op |-> "Blockchain"]
    /\ Len(chain) >= 2
    /\ \E t \in Threads : pc[t] = "idle" /\ loc[t] = [op |-> "Blockchain", again |-> TRUE]

\* C24: at most one thread at a time is inside the with block of add_block or reset, and
\* every add_block or reset call in progress uses the lock object the Ledger has now.
C24_MutualExclusion ==
    /\ Cardinality({t \in Threads : pc[t] \in {"add_mine", "reset_genesis"}}) <= 1
    /\ \A t \in Threads :
          pc[t] \in {"add_wait", "add_mine", "reset_wait", "reset_genesis"} =>
             loc[t].lock = chainLock

C30_UploadAllOrNothing ==
    (last.op = "upload_certificate" /\ last.id <= Len(certs)) =>
        LET row == certs[last.id]
        IN  /\ row.block_index # <<>>
            /\ row.block_hash # <<>>
            /\ row.block_index[1] < Len(chain)
            /\ DictGet(chain[row.block_index[1] + 1].data, "certificate_hash")
                  = row.file_hash
            /\ chain[row.block_index[1] + 1].current_hash = row.block_hash[1]

\* C31: the row a verify_certificate request writes has status 'verified' exactly when
\* some Block of the chain at lookup time carries the uploaded file's hash (that is,
\* when find_by_hash returns a Block) and 'tampered' otherwise, never 'not_found'; when
\* a Block is found the row's block_index, block_hash and transaction_id are those of
\* the first such Block ('' for a Block with no transaction_id), and when none is found
\* they are null, '' and ''.
C31_VerifyStatus ==
    (last.op = "verify_certificate" /\ "id" \in DOMAIN last) =>
        LET log == logs[last.id]
            hits == Carriers(chain, log.uploaded_file_hash)
        IN  /\ log.uploaded_file_hash = HashFile(log.uploaded_file_name)
            /\ log.status \in {"verified", "tampered"}
            /\ log.status = "verified" <=> hits # {}
            /\ hits # {} =>
                  LET b == chain[CHOOSE i \in hits : \A j \in hits : i <= j]
                  IN  /\ log.block_index = <<b.index>>
                      /\ log.block_hash = <<b.current_hash>>
                      /\ log.transaction_id =
                            IF "transaction_id" \in DOMAIN b.data
                            THEN b.data.transaction_id ELSE ""
            /\ hits = {} =>
                  /\ log.block_index = <<>>
                  /\ log.block_hash = <<>>
                  /\ log.transaction_id = ""

\* A verification that found the Block of an upload, with its transaction_id, behind
\* the genesis Block of a chain that has been reset.
C31_Witness ==
    /\ last.op = "verify_certificate"
    /\ "id" \in DOMAIN last
    /\ everReset
    /\ logs[last.id].status = "verified"
    /\ logs[last.id].block_index = <<1>>
    /\ logs[last.id].transaction_id # ""

\* The user is authenticated, has a profile, and the profile's role is `role`.
Allowed(user, role) ==
    /\ user.is_authenticated
    /\ user.profile # <<>>
    /\ user.profile[1] = role

\* C32: the body of a view wrapped by role_required(role) is entered, and has run, only
\* for a request whose user is authenticated, has a profile and whose profile's role is
\* role; every other request is answered by wrapper with a redirect, never given to
\* the view: to login when the user is unauthenticated or has no profile, to dashboard
\* when the role differs.
C32_RoleRequired ==
    /\ \A t \in Threads : pc[t] = "view_func" => Allowed(loc[t].user, loc[t].role)
    /\ last.op = "view_func" => Allowed(last.user, last.role)
    /\ last.op = "wrapper" =>
          /\ ~Allowed(last.user, last.role)
          /\ last.redirect =
                IF ~last.user.is_authenticated \/ last.user.profile = <<>>
                THEN "login" ELSE "dashboard"

\* The body of a company view has run for a company user while a college user's
\* request is inside a college view.
C32_Witness ==
    /\ last.op = "view_func"
    /\ last.role = "company"
    /\ \E t \in Threads : pc[t] = "view_func" /\ loc[t].role = "college"

====
